---- MODULE Spec2Model ----
(***************************************************************************)
(* Quoteback metadata fetching: the admin form's save routine              *)
(* (blog/admin.py, QuotebackAdminForm.save) and the page scraper           *)
(* (blog/quoteback_utils.py).                                              *)
(*                                                                         *)
(* Python strings are modelled as sequences of one-character strings, so   *)
(* that strip, lstrip, lower, split and substring tests are computed.      *)
(* An optional value (None or a value) is a sequence of length 0 or 1.     *)
(***************************************************************************)
EXTENDS Integers, Sequences, FiniteSets, TLC

VARIABLES
    response,   \* the page response under an extractor: [error, status, body]
    url,        \* the URL handed to an extractor
    result,     \* what the extractor returned: <<>> before the call, else <<r>>
    db,         \* the persisted Quoteback row: <<>> or <<record>>
    m2m,        \* TRUE once the tag relations of the row have been written
    last        \* the record of the last QuotebackAdminForm.save call

vars == <<response, url, result, db, m2m, last>>

----------------------------------------------------------------------------
(* Optional values and Python truthiness *)

None == <<>>
Some(x) == <<x>>
IsNone(o) == o = <<>>
\* bool(x) for x a str or None: None and "" are falsy
Truthy(o) == o # <<>> /\ o[1] # <<>>
\* bool(s) for s a str
NonEmpty(s) == s # <<>>

----------------------------------------------------------------------------
(* String primitives *)

WS == {" ", "\t", "\n", "\r"}

UPPER == <<"A","B","C","D","E","F","G","H","I","J","K","L","M",
           "N","O","P","Q","R","S","T","U","V","W","X","Y","Z">>
LOWER == <<"a","b","c","d","e","f","g","h","i","j","k","l","m",
           "n","o","p","q","r","s","t","u","v","w","x","y","z">>

LowerChar(c) ==
    IF \E i \in 1..Len(UPPER) : UPPER[i] = c
    THEN LOWER[CHOOSE i \in 1..Len(UPPER) : UPPER[i] = c]
    ELSE c

\* str.lower()
Lower(s) == [i \in 1..Len(s) |-> LowerChar(s[i])]

\* s[i:] and s[:i] with 1-based i
From(s, i) == SubSeq(s, i, Len(s))
Upto(s, i) == SubSeq(s, 1, i)

\* str.lstrip(chars)
RECURSIVE LStripChars(_, _)
LStripChars(s, chars) ==
    IF s # <<>> /\ Head(s) \in chars THEN LStripChars(Tail(s), chars) ELSE s

\* str.rstrip(chars)
RECURSIVE RStripChars(_, _)
RStripChars(s, chars) ==
    IF s # <<>> /\ s[Len(s)] \in chars
    THEN RStripChars(Upto(s, Len(s) - 1), chars)
    ELSE s

\* str.strip()
Strip(s) == RStripChars(LStripChars(s, WS), WS)

\* sub in s
Contains(s, sub) ==
    \E i \in 1..(Len(s) - Len(sub) + 1) : SubSeq(s, i, i + Len(sub) - 1) = sub

\* s.find(sub) as a 1-based index, 0 when absent
Find(s, sub) ==
    IF Contains(s, sub)
    THEN CHOOSE i \in 1..(Len(s) - Len(sub) + 1) :
            /\ SubSeq(s, i, i + Len(sub) - 1) = sub
            /\ \A j \in 1..(i - 1) : SubSeq(s, j, j + Len(sub) - 1) # sub
    ELSE 0

\* the first index of s holding a character of chars, Len(s)+1 when there is none
FirstOf(s, chars) ==
    IF \E i \in 1..Len(s) : s[i] \in chars
    THEN CHOOSE i \in 1..Len(s) : s[i] \in chars /\ \A j \in 1..(i - 1) : s[j] \notin chars
    ELSE Len(s) + 1

\* s.split(sep)[-1] for a one-character sep
RECURSIVE LastSegment(_, _)
LastSegment(s, sep) ==
    IF Contains(s, <<sep>>) THEN LastSegment(From(s, Find(s, <<sep>>) + 1), sep) ELSE s

\* s.split(): the whitespace-separated tokens of s
RECURSIVE Tokens(_)
\* the tokens of t, which starts with no whitespace and holds its first at n
TokensFrom(t, n) ==
    IF t = <<>> THEN <<>> ELSE <<Upto(t, n - 1)>> \o Tokens(From(t, n))
TokensOf(t) == TokensFrom(t, FirstOf(t, WS))
Tokens(s) == TokensOf(LStripChars(s, WS))

\* " ".join(tokens)
RECURSIVE Join(_)
Join(tokens) ==
    IF tokens = <<>> THEN <<>>
    ELSE IF Len(tokens) = 1 THEN tokens[1]
    ELSE tokens[1] \o <<" ">> \o Join(Tail(tokens))

----------------------------------------------------------------------------
(* String literals used by the code *)

s_og_title        == <<"o","g",":","t","i","t","l","e">>
s_twitter_title   == <<"t","w","i","t","t","e","r",":","t","i","t","l","e">>
s_article_author  == <<"a","r","t","i","c","l","e",":","a","u","t","h","o","r">>
s_author          == <<"a","u","t","h","o","r">>
s_twitter_creator == <<"t","w","i","t","t","e","r",":","c","r","e","a","t","o","r">>
s_icon            == <<"i","c","o","n">>
s_apple_touch_icon == <<"a","p","p","l","e","-","t","o","u","c","h","-","i","c","o","n">>
s_favicon_ico     == <<"f","a","v","i","c","o","n",".","i","c","o">>
s_http            == <<"h","t","t","p">>
s_https           == <<"h","t","t","p","s">>

----------------------------------------------------------------------------
(* urllib.parse, as used by the scraper.  Paths with "." or ".." segments  *)
(* and ";" parameters are outside the inputs enumerated below.             *)

Letters == {UPPER[i] : i \in 1..Len(UPPER)} \cup {LOWER[i] : i \in 1..Len(LOWER)}
SchemeChars == Letters \cup {"0","1","2","3","4","5","6","7","8","9","+","-","."}
UsesRelative == {<<>>, s_http, s_https}
UsesNetloc == {<<>>, s_http, s_https}

Chars(s) == {s[i] : i \in 1..Len(s)}

\* urlsplit raises "Invalid IPv6 URL" on a netloc with an unbalanced bracket
InvalidNetloc(netloc) ==
    \/ "[" \in Chars(netloc) /\ "]" \notin Chars(netloc)
    \/ "]" \in Chars(netloc) /\ "[" \notin Chars(netloc)

\* urlparse, last step: the path ends at the first "?" or "#", found at q;
\* tail is the query and fragment with their delimiter
urlparse_path(scheme, netloc, exc, rest, q) ==
    [exc |-> exc, scheme |-> scheme, netloc |-> netloc,
     path |-> Upto(rest, q - 1), tail |-> From(rest, q)]

\* urlparse after "//": the netloc ends at the first "/", "?" or "#", found at n
urlparse_netloc(scheme, after, n) ==
    urlparse_path(scheme, Upto(after, n - 1),
                  IF InvalidNetloc(Upto(after, n - 1)) THEN "ValueError" ELSE "none",
                  From(after, n), FirstOf(From(after, n), {"?", "#"}))

\* urlparse after the scheme
urlparse_rest(scheme, rest) ==
    IF Len(rest) >= 2 /\ Upto(rest, 2) = <<"/","/">>
    THEN urlparse_netloc(scheme, From(rest, 3), FirstOf(From(rest, 3), {"/", "?", "#"}))
    ELSE urlparse_path(scheme, <<>>, "none", rest, FirstOf(rest, {"?", "#"}))

\* urlparse with the first ":" found at i (0 when there is none): what precedes
\* it is the scheme when it starts with a letter and holds scheme characters only
urlparse_scheme(u, default_scheme, i) ==
    IF i > 1 /\ u[1] \in Letters /\ \A j \in 1..(i - 1) : u[j] \in SchemeChars
    THEN urlparse_rest(Lower(Upto(u, i - 1)), From(u, i + 1))
    ELSE urlparse_rest(default_scheme, u)

\* urlparse(u, default_scheme): [exc, scheme, netloc, path, tail]
urlparse(u, default_scheme) == urlparse_scheme(u, default_scheme, Find(u, <<":">>))

\* urlunparse, with p0 the path followed by the query and fragment
urlunparse_from(scheme, netloc, p0) ==
    (IF scheme # <<>> THEN scheme \o <<":">> ELSE <<>>)
    \o (IF netloc # <<>> \/ (scheme # <<>> /\ scheme \in UsesNetloc
                              /\ ~(Len(p0) >= 2 /\ Upto(p0, 2) = <<"/","/">>))
        THEN <<"/","/">> \o netloc
               \o (IF p0 # <<>> /\ Head(p0) # "/" THEN <<"/">> ELSE <<>>)
        ELSE <<>>)
    \o p0

\* urlunparse
urlunparse(scheme, netloc, path, tail) == urlunparse_from(scheme, netloc, path \o tail)

\* the directory part of a base path: everything up to and including its last "/"
RECURSIVE DirOf(_)
DirOf(path) ==
    IF path = <<>> THEN <<>>
    ELSE IF path[Len(path)] = "/" THEN path
    ELSE DirOf(Upto(path, Len(path) - 1))

\* urljoin's merge of a base path and a non-empty reference path
MergePaths(bpath, rpath) ==
    IF Head(rpath) = "/" THEN rpath ELSE DirOf(bpath) \o rpath

\* urljoin with both URLs parsed, b the base and r the reference
urljoin_parsed(u, b, r) ==
    IF b.exc # "none" THEN [exc |-> b.exc, val |-> <<>>]
    ELSE IF r.exc # "none" THEN [exc |-> r.exc, val |-> <<>>]
    ELSE IF r.scheme # b.scheme \/ r.scheme \notin UsesRelative
    THEN [exc |-> "none", val |-> u]
    ELSE [exc |-> "none",
          val |-> urlunparse(
                    r.scheme,
                    IF r.scheme \in UsesNetloc /\ r.netloc # <<>> THEN r.netloc ELSE b.netloc,
                    IF r.scheme \in UsesNetloc /\ r.netloc # <<>> THEN r.path
                    ELSE IF r.path = <<>> THEN b.path
                    ELSE MergePaths(b.path, r.path),
                    IF r.scheme \in UsesNetloc /\ r.netloc # <<>> THEN r.tail
                    ELSE IF r.path = <<>> /\ r.tail = <<>> THEN b.tail
                    ELSE r.tail)]

\* urljoin with the base parsed
urljoin_base(u, b) == urljoin_parsed(u, b, urlparse(u, b.scheme))

\* urljoin(base, u): [exc, val]
urljoin(base, u) ==
    IF base = <<>> THEN [exc |-> "none", val |-> u]
    ELSE IF u = <<>> THEN [exc |-> "none", val |-> base]
    ELSE urljoin_base(u, urlparse(base, <<>>))

----------------------------------------------------------------------------
(* The parsed document: a sequence of elements in document order *)

MetaProperty(p, c) == [tag |-> "meta", property |-> Some(p), name |-> None, content |-> c]
MetaName(n, c)     == [tag |-> "meta", property |-> None, name |-> Some(n), content |-> c]
TitleTag(str)      == [tag |-> "title", string |-> str]
Link(rel, href)    == [tag |-> "link", rel |-> rel, href |-> href]

\* soup.find(...): the first element of the document that matches, or None;
\* matches[i] tells whether the i-th element passes the filter
SoupFind(doc, matches) ==
    LET hits == {i \in 1..Len(doc) : matches[i]}
    IN IF hits = {} THEN None
       ELSE Some(doc[CHOOSE i \in hits : \A j \in hits : i <= j])

\* bs4 tests a multi-valued rel attribute value by value, and then the values
\* joined by spaces: the strings the filter is applied to
RelValuesOf(tokens) == {tokens[i] : i \in 1..Len(tokens)} \cup {Join(tokens)}
RelValues(rel) == IF IsNone(rel) THEN {} ELSE RelValuesOf(Tokens(rel[1]))

\* lambda x: x and "icon" in x.lower()
IconRel(x) == NonEmpty(x) /\ Contains(Lower(x), s_icon)

----------------------------------------------------------------------------
(* blog/quoteback_utils.py: the three extractors *)

IsOgTitle(e)        == e.tag = "meta" /\ e.property = Some(s_og_title)
IsTwitterTitle(e)   == e.tag = "meta" /\ e.name = Some(s_twitter_title)
IsTitleTag(e)       == e.tag = "title"
IsArticleAuthor(e)  == e.tag = "meta" /\ e.property = Some(s_article_author)
IsMetaAuthor(e)     == e.tag = "meta" /\ e.name = Some(s_author)
IsTwitterCreator(e) == e.tag = "meta" /\ e.name = Some(s_twitter_creator)
IsAppleTouch(x)     == x = s_apple_touch_icon
IsIconLink(e)       == e.tag = "link" /\ \E x \in RelValues(e.rel) : IconRel(x)
IsAppleLink(e)      == e.tag = "link" /\ \E x \in RelValues(e.rel) : IsAppleTouch(x)

\* _extract_title(soup, url): a str
extract_title(doc, u) ==
    LET og_title      == SoupFind(doc, [i \in 1..Len(doc) |-> IsOgTitle(doc[i])])
        twitter_title == SoupFind(doc, [i \in 1..Len(doc) |-> IsTwitterTitle(doc[i])])
        title_tag     == SoupFind(doc, [i \in 1..Len(doc) |-> IsTitleTag(doc[i])])
    IN IF ~IsNone(og_title) /\ Truthy(og_title[1].content)
       THEN og_title[1].content[1]
       ELSE IF ~IsNone(twitter_title) /\ Truthy(twitter_title[1].content)
       THEN twitter_title[1].content[1]
       ELSE IF ~IsNone(title_tag) /\ Truthy(title_tag[1].string)
       THEN Strip(title_tag[1].string[1])
       ELSE u

\* _extract_author returning the twitter:creator content as it stands
extract_author_keep_at(doc) ==
    LET og_author       == SoupFind(doc, [i \in 1..Len(doc) |-> IsArticleAuthor(doc[i])])
        meta_author     == SoupFind(doc, [i \in 1..Len(doc) |-> IsMetaAuthor(doc[i])])
        twitter_creator == SoupFind(doc, [i \in 1..Len(doc) |-> IsTwitterCreator(doc[i])])
    IN IF ~IsNone(og_author) /\ Truthy(og_author[1].content)
       THEN og_author[1].content[1]
       ELSE IF ~IsNone(meta_author) /\ Truthy(meta_author[1].content)
       THEN meta_author[1].content[1]
       ELSE IF ~IsNone(twitter_creator) /\ Truthy(twitter_creator[1].content)
       THEN twitter_creator[1].content[1]
       ELSE <<>>

\* _extract_author(soup): a str
extract_author(doc) ==
    LET og_author       == SoupFind(doc, [i \in 1..Len(doc) |-> IsArticleAuthor(doc[i])])
        meta_author     == SoupFind(doc, [i \in 1..Len(doc) |-> IsMetaAuthor(doc[i])])
        twitter_creator == SoupFind(doc, [i \in 1..Len(doc) |-> IsTwitterCreator(doc[i])])
    IN IF ~IsNone(og_author) /\ Truthy(og_author[1].content)
       THEN og_author[1].content[1]
       ELSE IF ~IsNone(meta_author) /\ Truthy(meta_author[1].content)
       THEN meta_author[1].content[1]
       ELSE IF ~IsNone(twitter_creator) /\ Truthy(twitter_creator[1].content)
       THEN LStripChars(twitter_creator[1].content[1], {"@"})
       ELSE <<>>

\* lines 141-142: "{scheme}://{netloc}/favicon.ico" of the parsed base URL
default_favicon(parsed) ==
    IF parsed.exc # "none" THEN [exc |-> parsed.exc, val |-> <<>>]
    ELSE [exc |-> "none",
          val |-> parsed.scheme \o <<":","/","/">> \o parsed.netloc
                    \o <<"/">> \o s_favicon_ico]

\* lines 132-142, with the two links soup.find returned
favicon_url_from(base_url, icon_link, apple_icon) ==
    IF ~IsNone(icon_link) /\ Truthy(icon_link[1].href)
    THEN urljoin(base_url, icon_link[1].href[1])
    ELSE IF ~IsNone(apple_icon) /\ Truthy(apple_icon[1].href)
    THEN urljoin(base_url, apple_icon[1].href[1])
    ELSE default_favicon(urlparse(base_url, <<>>))

\* _extract_favicon_url(soup, base_url): [exc, val]; urljoin raises ValueError
\* on an href whose netloc has an unbalanced bracket
extract_favicon_url(doc, base_url) ==
    favicon_url_from(base_url,
                     SoupFind(doc, [i \in 1..Len(doc) |-> IsIconLink(doc[i])]),
                     SoupFind(doc, [i \in 1..Len(doc) |-> IsAppleLink(doc[i])]))

----------------------------------------------------------------------------
(* blog/quoteback_utils.py: the two network operations.                    *)
(* A response is [error, status, body]: error is the exception requests.get *)
(* raised ("none" when it returned), body the parsed document or the bytes. *)

\* the exceptions "except Exception" catches
ExceptionClasses == {"ConnectionError", "Timeout", "HTTPError", "ValueError"}

\* raise_for_status raising on server errors only
raise_for_status_5xx(resp) ==
    IF resp.status >= 500 /\ resp.status < 600 THEN "HTTPError" ELSE "none"

\* response.raise_for_status()
raise_for_status(resp) ==
    IF resp.status >= 400 /\ resp.status < 600 THEN "HTTPError" ELSE "none"

\* requests.get(...) followed by raise_for_status(): the exception raised, or "none"
GetOutcome(resp) == IF resp.error # "none" THEN resp.error ELSE raise_for_status(resp)

EmptyMetadata == [title |-> <<>>, author |-> <<>>, favicon_url |-> <<>>]

\* lines 49-60 once the GET has succeeded: the three extractors in turn, the
\* handler keeping what was assigned before an exception
metadata_from(title, author, fav) ==
    [metadata |-> [title       |-> title,
                   author      |-> author,
                   favicon_url |-> IF fav.exc = "none" THEN fav.val ELSE <<>>],
     raised   |-> IF fav.exc \in ExceptionClasses THEN "none" ELSE fav.exc]

\* fetch_page_metadata(url): [metadata, raised], raised being the exception that
\* escapes to the caller ("none" when the handler caught it)
fetch_page_metadata(u, resp) ==
    IF GetOutcome(resp) # "none"
    THEN [metadata |-> EmptyMetadata,
          raised   |-> IF GetOutcome(resp) \in ExceptionClasses
                       THEN "none" ELSE GetOutcome(resp)]
    ELSE metadata_from(extract_title(resp.body, u), extract_author(resp.body),
                       extract_favicon_url(resp.body, u))

\* lines 161-168: the ContentFile named after the last segment of the path
content_file(filename, content) ==
    [name    |-> IF "." \notin Chars(filename) THEN s_favicon_ico ELSE filename,
     content |-> content]

\* download_favicon with the URL parsed
favicon_file_from(parsed, resp) ==
    IF parsed.exc # "none" THEN None
    ELSE Some(content_file(LastSegment(parsed.path, "/"), resp.body))

\* download_favicon without raise_for_status(): an error page is kept as the icon
download_favicon_unchecked(favicon_url, resp) ==
    IF resp.error # "none" THEN None
    ELSE favicon_file_from(urlparse(favicon_url, <<>>), resp)

\* download_favicon(favicon_url): None, or Some(ContentFile) as [name, content]
download_favicon(favicon_url, resp) ==
    IF GetOutcome(resp) # "none" THEN None
    ELSE favicon_file_from(urlparse(favicon_url, <<>>), resp)

----------------------------------------------------------------------------
(* blog/admin.py: QuotebackAdminForm.save *)

\* forms.BaseForm.has_changed()
has_changed(changed_data) == changed_data # {}

\* the outer condition, line 92
fetch_requested(cleaned_data, instance) ==
    cleaned_data.fetch_metadata /\ NonEmpty(instance.source_url)

\* should_fetch with the "and" of its last line binding looser than the "or"s
should_fetch_or_first(instance, changed_data) ==
    /\ \/ IsNone(instance.pk)
       \/ ~NonEmpty(instance.page_title)
       \/ has_changed(changed_data)
    /\ "source_url" \in changed_data

\* should_fetch with the test for source_url in changed_data dropped
should_fetch_any_change(instance, changed_data) ==
    \/ IsNone(instance.pk)
    \/ ~NonEmpty(instance.page_title)
    \/ has_changed(changed_data)

\* should_fetch, lines 94-98
should_fetch(instance, changed_data) ==
    \/ IsNone(instance.pk)
    \/ ~NonEmpty(instance.page_title)
    \/ (has_changed(changed_data) /\ "source_url" \in changed_data)

\* merge_title without the test for a blank title
merge_title_overwrite(instance, metadata) ==
    [instance EXCEPT !.page_title = metadata.title]

\* lines 104-105
merge_title(instance, metadata) ==
    IF ~NonEmpty(instance.page_title)
    THEN [instance EXCEPT !.page_title = metadata.title]
    ELSE instance

\* lines 107-108
merge_author(instance, metadata) ==
    IF ~NonEmpty(instance.author) /\ NonEmpty(metadata.author)
    THEN [instance EXCEPT !.author = metadata.author]
    ELSE instance

\* favicon_wanted without the test for an existing favicon
favicon_wanted_always(instance, metadata) ==
    NonEmpty(metadata.favicon_url)

\* line 111
favicon_wanted(instance, metadata) ==
    NonEmpty(metadata.favicon_url) /\ IsNone(instance.favicon)

\* lines 113-114: instance.favicon.save(name, file, save=False)
attach_favicon(instance, favicon_file) ==
    IF ~IsNone(favicon_file)
    THEN [instance EXCEPT !.favicon = Some(favicon_file[1].name)]
    ELSE instance

\* A frame is the routine's local state: the instance being built, the calls
\* made so far in order, the metadata obtained (None before the fetch), and the
\* exception that has escaped ("none" while running normally).
Frame(instance) ==
    [instance |-> instance, calls |-> <<>>, metadata |-> None, raised |-> "none"]

\* line 101 with the value fetch_page_metadata returned
fetched(f, got) ==
    [f EXCEPT !.calls    = Append(@, "page_get"),
              !.metadata = IF got.raised = "none" THEN Some(got.metadata) ELSE None,
              !.raised   = got.raised]

\* line 101: metadata = fetch_page_metadata(instance.source_url)
fetch_step(f, page) == fetched(f, fetch_page_metadata(f.instance.source_url, page))

\* lines 103-108
merge_step(f) ==
    [f EXCEPT !.instance = merge_author(merge_title(@, f.metadata[1]), f.metadata[1])]

\* lines 113-114 with the value download_favicon returned
downloaded(f, favicon_file) ==
    [f EXCEPT !.calls = IF IsNone(favicon_file)
                        THEN Append(@, "favicon_get")
                        ELSE @ \o <<"favicon_get", "favicon_attach">>,
              !.instance = attach_favicon(@, favicon_file)]

\* favicon_step downloading a second time when the first download failed
favicon_step_retry(f, icon) ==
    IF favicon_wanted(f.instance, f.metadata[1]) /\ GetOutcome(icon) # "none"
    THEN [f EXCEPT !.calls = @ \o <<"favicon_get", "favicon_get">>]
    ELSE IF favicon_wanted(f.instance, f.metadata[1])
    THEN downloaded(f, download_favicon(f.metadata[1].favicon_url, icon))
    ELSE f

\* lines 110-114
favicon_step(f, icon) ==
    IF favicon_wanted(f.instance, f.metadata[1])
    THEN downloaded(f, download_favicon(f.metadata[1].favicon_url, icon))
    ELSE f

\* lines 116-118: instance.save() gives a new row its primary key
persist_step(f, commit) ==
    IF commit
    THEN [f EXCEPT !.calls = @ \o <<"instance_save", "save_m2m">>,
                   !.instance = [@ EXCEPT !.pk = Some(1)]]
    ELSE f

\* lines 103-120 on the frame the fetch left; an exception skips the rest
after_fetch(f, commit, icon) ==
    IF f.raised # "none" THEN f
    ELSE IF IsNone(f.metadata) THEN persist_step(f, commit)
    ELSE persist_step(favicon_step(merge_step(f), icon), commit)

\* lines 92-101 on the frame of a fresh call
maybe_fetch(f, cleaned_data, changed_data, page) ==
    IF fetch_requested(cleaned_data, f.instance) /\ should_fetch(f.instance, changed_data)
    THEN fetch_step(f, page)
    ELSE f

\* lines 88-120, on the instance built by super().save(commit=False)
form_save(instance, cleaned_data, changed_data, commit, page, icon) ==
    after_fetch(maybe_fetch(Frame(instance), cleaned_data, changed_data, page),
                commit, icon)

----------------------------------------------------------------------------
(* Inputs *)

\* "https://x.co/a" and "http://y.io/b/c"
URL1 == <<"h","t","t","p","s",":","/","/","x",".","c","o","/","a">>
URL2 == <<"h","t","t","p",":","/","/","y",".","i","o","/","b","/","c">>

\* the source URLs an editor submits: none, or one of two pages
SOURCE_URLS == {<<>>, URL1, URL2}
\* the page titles and authors an editor submits (the form strips them)
SUBMITTED_TITLES == {<<>>, <<"T">>}
SUBMITTED_AUTHORS == {<<>>, <<"X">>}
\* the file an editor uploads as favicon: "up.png"
UPLOADED == <<"u","p",".","p","n","g">>

\* hrefs: "/f.png", "g.png", "https://z.io/i", "//[" (urljoin raises on it)
h_rooted   == <<"/","f",".","p","n","g">>
h_relative == <<"g",".","p","n","g">>
h_absolute == <<"h","t","t","p","s",":","/","/","z",".","i","o","/","i">>
h_invalid  == <<"/","/","[">>

\* rel values: "icon", "Shortcut Icon", "apple-touch-icon", "stylesheet"
r_icon       == s_icon
r_shortcut   == <<"S","h","o","r","t","c","u","t"," ","I","c","o","n">>
r_apple      == s_apple_touch_icon
r_stylesheet == <<"s","t","y","l","e","s","h","e","e","t">>

\* the longest document an extractor is run on, per extractor
MaxTitleElems == 3
MaxAuthorElems == 3
MaxLinkElems == 3
MaxPageElems == 3

SeqsUpTo(S, n) == UNION {[1..k -> S] : k \in 0..n}

TitleElems ==
    {MetaProperty(s_og_title, c) : c \in {None, Some(<<>>), Some(<<"A">>)}}
    \cup {MetaName(s_twitter_title, c) : c \in {Some(<<>>), Some(<<"W">>)}}
    \cup {TitleTag(t) : t \in {None, Some(<<" ">>), Some(<<" ","B","\n">>), Some(<<"B">>)}}
    \cup {MetaName(s_author, Some(<<"X">>))}

AuthorElems ==
    {MetaProperty(s_article_author, c) : c \in {None, Some(<<>>), Some(<<"G">>)}}
    \cup {MetaName(s_author, c) : c \in {Some(<<>>), Some(<<"M">>)}}
    \cup {MetaName(s_twitter_creator, c) :
            c \in {Some(<<>>), Some(<<"@">>), Some(<<"@","a">>),
                   Some(<<"@","@","a">>), Some(<<"a","@">>)}}
    \cup {TitleTag(Some(<<"B">>))}

LinkElems ==
    {Link(Some(r), h) : r \in {r_icon, r_shortcut},
                        h \in {None, Some(<<>>), Some(h_rooted), Some(h_relative)}}
    \cup {Link(Some(r_apple), h) : h \in {Some(<<>>), Some(h_absolute)}}
    \cup {Link(Some(r_icon), Some(h_invalid)),
          Link(Some(r_stylesheet), Some(h_rooted)),
          Link(None, Some(h_rooted))}

\* the elements of the pages fetch_page_metadata is run on
PageElems ==
    {MetaProperty(s_og_title, Some(<<"A">>)),
     TitleTag(Some(<<" ">>)),
     MetaName(s_author, Some(<<"M">>)),
     Link(Some(r_shortcut), Some(h_rooted)),
     Link(Some(r_icon), Some(h_invalid))}

\* the pages the source URL serves in the save model
DOC_FULL    == <<MetaProperty(s_og_title, Some(<<"A">>)),
                 MetaName(s_author, Some(<<"M">>)),
                 Link(Some(r_shortcut), Some(h_rooted))>>
DOC_BARE    == <<>>
DOC_BLANK   == <<TitleTag(Some(<<" ">>)), Link(Some(r_icon), Some(<<>>))>>
DOC_INVALID == <<TitleTag(Some(<<" ","A","\n">>)),
                 MetaName(s_twitter_creator, Some(<<"@","M">>)),
                 Link(Some(r_icon), Some(h_invalid))>>
PAGE_DOCS == {DOC_FULL, DOC_BARE, DOC_BLANK, DOC_INVALID}

Response(error, status, body) == [error |-> error, status |-> status, body |-> body]

\* an HTTP exchange that does not take place
NO_RESPONSE == Response("none", 0, <<>>)

PAGE_RESPONSES ==
    {Response(e, 0, <<>>) : e \in {"ConnectionError", "Timeout"}}
    \cup {Response("none", 404, DOC_FULL)}
    \cup {Response("none", 200, d) : d \in PAGE_DOCS}

ICON_RESPONSES ==
    {Response("Timeout", 0, "none"),
     Response("none", 404, "none"),
     Response("none", 200, "bytes")}

----------------------------------------------------------------------------
(* The save model: one Quoteback row edited through the admin form *)

NoSave ==
    [called |-> FALSE, commit |-> FALSE, fetch_metadata |-> FALSE,
     changed_data |-> {}, pre |-> None, page |-> NO_RESPONSE,
     icon |-> NO_RESPONSE, out |-> None]

\* cleaned values against initial values, as forms.BaseForm.changed_data does
ChangedData(initial, submitted) ==
    {k \in DOMAIN submitted : submitted[k] # initial[k]}

\* what the form is bound to: the stored row, or a fresh instance whose
\* source_url the admin may have prefilled from the query string
Initial(prefill_url) ==
    IF IsNone(db)
    THEN [pk |-> None, source_url |-> prefill_url, page_title |-> <<>>,
          author |-> <<>>, favicon |-> None]
    ELSE db[1]

\* The network answers only the requests that are made: the responses are
\* drawn for the GETs the routine issues on these inputs.
PageAnswers(instance, cleaned, changed) ==
    IF "page_get" \in Chars(form_save(instance, cleaned, changed, FALSE,
                                      NO_RESPONSE, NO_RESPONSE).calls)
    THEN PAGE_RESPONSES
    ELSE {NO_RESPONSE}

IconAnswers(instance, cleaned, changed, page) ==
    IF "favicon_get" \in Chars(form_save(instance, cleaned, changed, FALSE,
                                         page, NO_RESPONSE).calls)
    THEN ICON_RESPONSES
    ELSE {NO_RESPONSE}

\* cleaned values against initial values, and the unchecked fetch_metadata box
\* against its initial True
FormChangedData(initial, instance, fetch_metadata) ==
    ChangedData([k \in DOMAIN instance \ {"pk"} |-> initial[k]],
                [k \in DOMAIN instance \ {"pk"} |-> instance[k]])
      \cup (IF fetch_metadata THEN {} ELSE {"fetch_metadata"})

\* the effect of a call that returned out (or raised): with commit the row is written
Saved(instance, fetch_metadata, changed, commit, page, icon, out) ==
    /\ last' = [called |-> TRUE, commit |-> commit,
                fetch_metadata |-> fetch_metadata,
                changed_data |-> changed, pre |-> Some(instance),
                page |-> page, icon |-> icon, out |-> Some(out)]
    /\ db' = IF commit /\ out.raised = "none" THEN Some(out.instance) ELSE db
    /\ m2m' = (m2m \/ (commit /\ out.raised = "none"))
    /\ UNCHANGED <<response, url, result>>

\* save(commit) on a bound form: instance is what super().save(commit=False) built
SaveForm(instance, cleaned, changed, commit) ==
    \E page \in PageAnswers(instance, cleaned, changed) :
      \E icon \in IconAnswers(instance, cleaned, changed, page) :
        Saved(instance, cleaned.fetch_metadata, changed, commit, page, icon,
              form_save(instance, cleaned, changed, commit, page, icon))

Save ==
    /\ ~last.called
    /\ \E commit \in BOOLEAN, fetch_metadata \in BOOLEAN,
          source_url \in SOURCE_URLS, page_title \in SUBMITTED_TITLES,
          author \in SUBMITTED_AUTHORS :
         \E initial \in {Initial(p) : p \in (IF IsNone(db) THEN SOURCE_URLS ELSE {<<>>})} :
           \E favicon \in {initial.favicon, None, Some(UPLOADED)} :
             \E instance \in {[pk |-> initial.pk, source_url |-> source_url,
                               page_title |-> page_title, author |-> author,
                               favicon |-> favicon]} :
               SaveForm(instance, [fetch_metadata |-> fetch_metadata],
                        FormChangedData(initial, instance, fetch_metadata), commit)

\* line 120: the routine returns and its frame is gone
Return ==
    /\ last.called
    /\ last' = NoSave
    /\ UNCHANGED <<db, m2m, response, url, result>>

Init ==
    /\ db = None
    /\ m2m = FALSE
    /\ last = NoSave
    /\ response = NO_RESPONSE
    /\ url = <<>>
    /\ result = None

Next == Save \/ Return

Spec == Init /\ [][Next]_vars

----------------------------------------------------------------------------
(* The extractors run on every document up to a length *)

InitExtract(responses) ==
    /\ response \in responses
    /\ url \in {URL1, URL2}
    /\ result = None
    /\ db = None
    /\ m2m = FALSE
    /\ last = NoSave

ExtractTitle ==
    /\ IsNone(result)
    /\ result' = Some(extract_title(response.body, url))
    /\ UNCHANGED <<response, url, db, m2m, last>>

ExtractAuthor ==
    /\ IsNone(result)
    /\ result' = Some(extract_author(response.body))
    /\ UNCHANGED <<response, url, db, m2m, last>>

ExtractFaviconUrl ==
    /\ IsNone(result)
    /\ result' = Some(extract_favicon_url(response.body, url))
    /\ UNCHANGED <<response, url, db, m2m, last>>

FetchPageMetadata ==
    /\ IsNone(result)
    /\ result' = Some(fetch_page_metadata(url, response))
    /\ UNCHANGED <<response, url, db, m2m, last>>

Fetched(docs) == {Response("none", 200, d) : d \in docs}

InitTitle == InitExtract(Fetched(SeqsUpTo(TitleElems, MaxTitleElems)))
InitAuthor == InitExtract(Fetched(SeqsUpTo(AuthorElems, MaxAuthorElems)))
InitFavicon == InitExtract(Fetched(SeqsUpTo(LinkElems, MaxLinkElems)))
InitFetch ==
    InitExtract({Response(e, 0, <<>>) : e \in {"ConnectionError", "Timeout"}}
                \cup {Response("none", st, d) :
                         st \in {200, 404, 500}, d \in SeqsUpTo(PageElems, MaxPageElems)})

SpecTitle == InitTitle /\ [][ExtractTitle]_vars
SpecAuthor == InitAuthor /\ [][ExtractAuthor]_vars
SpecFavicon == InitFavicon /\ [][ExtractFaviconUrl]_vars
SpecFetch == InitFetch /\ [][FetchPageMetadata]_vars

----------------------------------------------------------------------------
(* How the last save is read *)

Pre == last.pre[1]
Out == last.out[1]
Post == last.out[1].instance
Calls == last.out[1].calls
Made(call) == \E i \in 1..Len(Calls) : Calls[i] = call
Count(call) == Cardinality({i \in 1..Len(Calls) : Calls[i] = call})
Blank(s) == s = <<>>

----------------------------------------------------------------------------
(* C1: the page fetch is attempted exactly when the fetch flag is set, the  *)
(* source URL is non-empty, and the record is new, or its page title is     *)
(* blank, or (the form has changed and source_url is a changed field).      *)
C1_FetchDecision ==
    last.called =>
        (Made("page_get") <=>
            /\ last.fetch_metadata
            /\ ~Blank(Pre.source_url)
            /\ \/ IsNone(Pre.pk)
               \/ Blank(Pre.page_title)
               \/ (last.changed_data # {} /\ "source_url" \in last.changed_data))

\* a stored record with a blank title, edited without touching source_url, is fetched
C1_Witness ==
    /\ last.called
    /\ ~IsNone(Pre.pk)
    /\ Blank(Pre.page_title)
    /\ last.changed_data # {}
    /\ "source_url" \notin last.changed_data
    /\ Made("page_get")

(* C2: a page title that is non-blank when the merge starts is the same     *)
(* after the save, and so is a non-blank author; a blank author is replaced *)
(* only by a non-empty fetched author.                                      *)
C2_FillIfBlank ==
    last.called =>
        /\ ~Blank(Pre.page_title) => Post.page_title = Pre.page_title
        /\ ~Blank(Pre.author) => Post.author = Pre.author
        /\ (Blank(Pre.author) /\ Post.author # Pre.author) =>
              /\ ~IsNone(Out.metadata)
              /\ ~Blank(Out.metadata[1].author)
              /\ Post.author = Out.metadata[1].author

\* a fetch that produced another title and another author than the submitted ones
C2_Witness ==
    /\ last.called
    /\ ~IsNone(Out.metadata)
    /\ ~Blank(Pre.page_title)
    /\ ~Blank(Out.metadata[1].title)
    /\ Out.metadata[1].title # Pre.page_title
    /\ ~Blank(Pre.author)
    /\ ~Blank(Out.metadata[1].author)
    /\ Out.metadata[1].author # Pre.author

(* C3: in a save where the record already has a favicon, no favicon is      *)
(* downloaded and the favicon is unchanged; a download is attempted only    *)
(* when the fetched favicon URL is non-empty and the record has no favicon. *)
C3_FaviconKept ==
    last.called =>
        /\ ~IsNone(Pre.favicon) => (~Made("favicon_get") /\ Post.favicon = Pre.favicon)
        /\ Made("favicon_get") =>
              /\ ~IsNone(Out.metadata)
              /\ ~Blank(Out.metadata[1].favicon_url)
              /\ IsNone(Pre.favicon)

\* a fetch that found a favicon URL for a record that has a favicon
C3_Witness ==
    /\ last.called
    /\ ~IsNone(Pre.favicon)
    /\ ~IsNone(Out.metadata)
    /\ ~Blank(Out.metadata[1].favicon_url)

(* C4: fetch_page_metadata never raises, its result always has the three    *)
(* keys, and after a network error, a timeout or a non-success status of    *)
(* the page GET all three values are the empty string.                      *)
C4_FailsSoft ==
    ~IsNone(result) =>
        /\ result[1].raised = "none"
        /\ DOMAIN result[1].metadata = {"title", "author", "favicon_url"}
        /\ (response.error # "none" \/ response.status >= 400) =>
              /\ Blank(result[1].metadata.title)
              /\ Blank(result[1].metadata.author)
              /\ Blank(result[1].metadata.favicon_url)

\* an error page that carries an og:title has been fetched
C4_Witness ==
    /\ ~IsNone(result)
    /\ response.error = "none"
    /\ response.status = 404
    /\ \E i \in 1..Len(response.body) :
          response.body[i] = MetaProperty(s_og_title, Some(<<"A">>))

PageFailed == last.page.error # "none" \/ last.page.status >= 400
IconFailed == last.icon.error # "none" \/ last.icon.status >= 400
MergedTitle == IF Blank(Pre.page_title) THEN Out.metadata[1].title ELSE Pre.page_title
MergedAuthor ==
    IF Blank(Pre.author) /\ ~Blank(Out.metadata[1].author)
    THEN Out.metadata[1].author
    ELSE Pre.author

(* C5: the save always completes; after a failed page fetch title, author   *)
(* and favicon are as submitted and no favicon is downloaded; after a       *)
(* failed favicon download no favicon is attached while the merged title    *)
(* and author are kept and, with commit set, persisted.                     *)
C5_SaveCompletes ==
    last.called =>
        /\ Out.raised = "none"
        /\ last.commit => (db = Some(Post) /\ m2m /\ ~IsNone(Post.pk))
        /\ (Made("page_get") /\ PageFailed) =>
              /\ Post.page_title = Pre.page_title
              /\ Post.author = Pre.author
              /\ Post.favicon = Pre.favicon
              /\ ~Made("favicon_get")
        /\ (Made("favicon_get") /\ IconFailed) =>
              /\ ~PageFailed
              /\ IsNone(Post.favicon)
              /\ ~Made("favicon_attach")
              /\ Post.page_title = MergedTitle
              /\ Post.author = MergedAuthor
              /\ last.commit =>
                    /\ db[1].page_title = MergedTitle
                    /\ db[1].author = MergedAuthor
                    /\ IsNone(db[1].favicon)

\* a committed save whose favicon download got a 404 after the page gave a title
C5_Witness ==
    /\ last.called
    /\ last.commit
    /\ Made("favicon_get")
    /\ last.icon.status = 404
    /\ Blank(Pre.page_title)
    /\ ~Blank(db[1].page_title)

IsGet(call) == call \in {"page_get", "favicon_get"}
IsPersist(call) == call \in {"instance_save", "save_m2m"}

(* C8: a save makes at most one page GET and then at most one favicon GET,  *)
(* never a favicon GET without an earlier page GET, and instance.save then  *)
(* save_m2m run, only when commit is set, after both GETs.                  *)
C8_CallOrder ==
    last.called =>
        /\ Count("page_get") <= 1
        /\ Count("favicon_get") <= 1
        /\ \A i \in 1..Len(Calls) :
              Calls[i] = "favicon_get" => \E j \in 1..(i - 1) : Calls[j] = "page_get"
        /\ Count("instance_save") = (IF last.commit THEN 1 ELSE 0)
        /\ Count("save_m2m") = (IF last.commit THEN 1 ELSE 0)
        /\ \A i, j \in 1..Len(Calls) :
              /\ (IsGet(Calls[i]) /\ IsPersist(Calls[j])) => i < j
              /\ (Calls[i] = "instance_save" /\ Calls[j] = "save_m2m") => i < j

\* a committed save that made both GETs, the second one failing
C8_Witness ==
    /\ last.called
    /\ Made("page_get")
    /\ Made("favicon_get")
    /\ IconFailed
    /\ Made("save_m2m")

(* C10: for a stored record with a non-blank page title, a save that submits *)
(* a non-blank page title and does not change source_url makes no network   *)
(* call and returns title, author and favicon as submitted; for a stored    *)
(* record whose page title is blank, a save that submits a blank title with *)
(* the fetch flag set and a source URL makes the page GET again.            *)
C10_Step ==
    (~last.called /\ last'.called /\ ~IsNone(db)) =>
        LET pre   == last'.pre[1]
            out   == last'.out[1]
            calls == {out.calls[i] : i \in 1..Len(out.calls)}
        IN /\ ( /\ ~Blank(db[1].page_title)
                /\ ~Blank(pre.page_title)
                /\ "source_url" \notin last'.changed_data )
              => /\ "page_get" \notin calls
                 /\ "favicon_get" \notin calls
                 /\ out.instance.page_title = pre.page_title
                 /\ out.instance.author = pre.author
                 /\ out.instance.favicon = pre.favicon
           /\ ( /\ Blank(db[1].page_title)
                /\ Blank(pre.page_title)
                /\ last'.fetch_metadata
                /\ ~Blank(pre.source_url) )
              => "page_get" \in calls

C10_RepeatedSaves == [][C10_Step]_vars

\* a stored record, left blank by a failed fetch, is fetched again and gets its title
C10_Witness ==
    /\ last.called
    /\ ~IsNone(Pre.pk)
    /\ Blank(Pre.page_title)
    /\ "source_url" \notin last.changed_data
    /\ Made("page_get")
    /\ ~Blank(Post.page_title)

----------------------------------------------------------------------------
(* The fallback chains as the specification words them *)

\* the first element of doc among the marked ones, None when none is marked
FirstMarked(doc, marks) ==
    IF \E i \in 1..Len(doc) : marks[i]
    THEN Some(doc[CHOOSE i \in 1..Len(doc) : marks[i] /\ \A j \in 1..(i - 1) : ~marks[j]])
    ELSE None

\* the content attribute of the first marked element, "" when there is none
ContentOf(doc, marks) ==
    LET hit == FirstMarked(doc, marks)
    IN IF IsNone(hit) \/ IsNone(hit[1].content) THEN <<>> ELSE hit[1].content[1]

OgTitles(doc)        == [i \in 1..Len(doc) |-> IsOgTitle(doc[i])]
TwitterTitles(doc)   == [i \in 1..Len(doc) |-> IsTwitterTitle(doc[i])]
TitleTags(doc)       == [i \in 1..Len(doc) |-> IsTitleTag(doc[i])]
ArticleAuthors(doc)  == [i \in 1..Len(doc) |-> IsArticleAuthor(doc[i])]
MetaAuthors(doc)     == [i \in 1..Len(doc) |-> IsMetaAuthor(doc[i])]
TwitterCreators(doc) == [i \in 1..Len(doc) |-> IsTwitterCreator(doc[i])]
IconLinks(doc)       == [i \in 1..Len(doc) |-> IsIconLink(doc[i])]
AppleLinks(doc)      == [i \in 1..Len(doc) |-> IsAppleLink(doc[i])]

\* the text of the first title element, "" when there is none
TitleText(doc) ==
    LET hit == FirstMarked(doc, TitleTags(doc))
    IN IF IsNone(hit) \/ IsNone(hit[1].string) THEN <<>> ELSE hit[1].string[1]

\* the first non-empty candidate, "" when all are empty
FirstNonEmpty(candidates) ==
    LET hits == {i \in 1..Len(candidates) : candidates[i] # <<>>}
    IN IF hits = {} THEN <<>>
       ELSE candidates[CHOOSE i \in hits : \A j \in hits : i <= j]

\* s without its leading "@"s: the suffix after the longest run of "@" at the start
WithoutLeadingAt(s) ==
    LET cut == CHOOSE k \in 0..Len(s) :
                  /\ \A i \in 1..k : s[i] = "@"
                  /\ k < Len(s) => s[k + 1] # "@"
    IN From(s, cut + 1)

\* the non-empty hrefs of the marked links, in document order
HrefsOf(doc, marks) ==
    LET F[i \in 0..Len(doc)] ==
            IF i = 0 THEN <<>>
            ELSE IF marks[i] /\ Truthy(doc[i].href) THEN Append(F[i - 1], doc[i].href[1])
            ELSE F[i - 1]
    IN F[Len(doc)]

(* C9: the author is the first non-empty of the article:author content, the *)
(* author content, and the twitter:creator content without its leading     *)
(* "@"; it is "" when there is none.                                        *)
C9_AuthorChain ==
    ~IsNone(result) =>
        result[1] = FirstNonEmpty(<<ContentOf(response.body, ArticleAuthors(response.body)),
                                    ContentOf(response.body, MetaAuthors(response.body)),
                                    WithoutLeadingAt(ContentOf(response.body, TwitterCreators(response.body)))>>)

\* twitter:creator "@a" is used, the two earlier sources being present but empty
C9_Witness ==
    /\ ~IsNone(result)
    /\ ~IsNone(FirstMarked(response.body, ArticleAuthors(response.body)))
    /\ ~IsNone(FirstMarked(response.body, MetaAuthors(response.body)))
    /\ ContentOf(response.body, ArticleAuthors(response.body)) = <<>>
    /\ ContentOf(response.body, MetaAuthors(response.body)) = <<>>
    /\ ContentOf(response.body, TwitterCreators(response.body)) = <<"@","a">>
    /\ result[1] = <<"a">>

(* C6: the title is the first non-empty of the og:title content, the        *)
(* twitter:title content, the trimmed text of the title element, and the    *)
(* URL; for a non-empty URL it is never empty.                              *)
C6_TitleChain ==
    ~IsNone(result) =>
        /\ result[1] = FirstNonEmpty(<<ContentOf(response.body, OgTitles(response.body)),
                                       ContentOf(response.body, TwitterTitles(response.body)),
                                       Strip(TitleText(response.body)),
                                       url>>)
        /\ url # <<>> => result[1] # <<>>

(* C7: the favicon URL is the href, resolved against the page URL, of the   *)
(* first link whose rel contains "icon" and whose href is non-empty, even   *)
(* when an earlier icon link has no href; else that of an apple-touch-icon  *)
(* link with a non-empty href; else scheme://host/favicon.ico.              *)
C7_FaviconChain ==
    (~IsNone(result) /\ result[1].exc = "none") =>
        LET icons  == HrefsOf(response.body, IconLinks(response.body))
            apples == HrefsOf(response.body, AppleLinks(response.body))
            parsed == urlparse(url, <<>>)
        IN result[1].val =
              IF icons # <<>> THEN urljoin(url, icons[1]).val
              ELSE IF apples # <<>> THEN urljoin(url, apples[1]).val
              ELSE parsed.scheme \o <<":","/","/">> \o parsed.netloc
                     \o <<"/">> \o s_favicon_ico

====
